---- MODULE Spec2Model ----
(***************************************************************************)
(* TextToSpeechPipeline (src/transformers/pipelines/text_to_speech.py).    *)
(*                                                                         *)
(* The pipeline object is modelled as the record `self`, and the dict that *)
(* preprocess returned last as the record `held`.  The actions are the     *)
(* constructor __init__, preprocess on its own, _forward on the dict the   *)
(* caller holds (the store of line 130 changes that dict in place), and a  *)
(* whole invocation __call__.  __call__ delegates to the base class        *)
(* Pipeline.__call__, which is not in src/; its dispatch is taken from the *)
(* specification: the parameters are split once, and the input, a text or  *)
(* a batch of texts, is prepared, generated and post-processed as one.     *)
(* The collaborators the pipeline calls (input processor, backend model,   *)
(* vocoder loader, x-vector dataset) are deterministic stubs that record   *)
(* the arguments they receive.                                             *)
(*                                                                         *)
(* Python values: None is the empty tuple <<>>, a present value v is the   *)
(* one-element tuple <<v>>.  A dict is a function whose DOMAIN is its key  *)
(* set.  An object is a record carrying its Python type in field `type`.   *)
(***************************************************************************)
EXTENDS Integers, Sequences, FiniteSets, TLC

VARIABLES
    phase,  \* "new": before __init__; "ready": constructed; "failed": __init__ raised
    args,   \* the arguments __init__ is run with; the pipeline keeps no
            \* reference to them, they are forgotten once it is in use
    error,  \* the exception type __init__ raised, "none" otherwise
    self,   \* the attributes __init__ assigned
    call,   \* the trace of the last run of _forward on the dict preprocess
            \* returned last; no trace when _forward has not run on it
    held,   \* the dict preprocess returned last: as produced, and as it is now
    via     \* the method run last: "__call__", "preprocess", "_forward", or
            \* "none" before any

vars == <<phase, args, error, self, call, held, via>>

\* Largest number of texts in one invocation.
MaxBatch == 2

----------------------------------------------------------------------------
(* Python values *)

None == <<>>

Some(v) == <<v>>

\* dict.get(key, None)
Get(d, key) == IF key \in DOMAIN d THEN d[key] ELSE None

\* the dict after d.update(e); also the keyword dict built by f(**d, **e)
Update(d, e) ==
    [k \in (DOMAIN d) \cup (DOMAIN e) |-> IF k \in DOMAIN e THEN e[k] ELSE d[k]]

\* the dict d after d[key] = v
SetItem(d, key, v) ==
    [k \in (DOMAIN d) \cup {key} |-> IF k = key THEN v ELSE d[k]]

\* the dict d restricted to the keys in keep
Restrict(d, keep) == [k \in (DOMAIN d) \cap keep |-> d[k]]

IsInstance(v, t) == v # None /\ v[1].type = t

----------------------------------------------------------------------------
(* Module-level tables *)

ONLY_ONE_SPEAKER_EMBEDDINGS_LIST == {"bark"}

SPEAKER_EMBEDDINGS_KEY_MAPPING == [bark |-> "history_prompt"]

\* SPEAKER_EMBEDDINGS_KEY_MAPPING.get(model_type, "speaker_embeddings")
SpeakerEmbeddingsKey(model_type) ==
    IF model_type \in DOMAIN SPEAKER_EMBEDDINGS_KEY_MAPPING
    THEN SPEAKER_EMBEDDINGS_KEY_MAPPING[model_type]
    ELSE "speaker_embeddings"

----------------------------------------------------------------------------
(* Input domains *)

ModelTypes == {"speecht5", "bark", "vits"}

Frameworks == {"pt", "tf"}

RateNames == <<"sample_rate", "sampling_rate">>

RateValues == {None, Some(16000), Some(24000)}

\* the dicts config.to_dict() / generation_config.to_dict() restricted to the
\* rate keys: each key is missing, present with None, or present with a rate
RateDicts ==
    UNION {[D -> RateValues] : D \in SUBSET {RateNames[1], RateNames[2]}}

Str(s) == Some([type |-> "str", ref |-> s, sampling_rate |-> None])

HifiGan(ref, rate) ==
    Some([type |-> "SpeechT5HifiGan", ref |-> ref, sampling_rate |-> Some(rate)])

\* an object that is neither a str nor a SpeechT5HifiGan
OtherObject == Some([type |-> "object", ref |-> "", sampling_rate |-> None])

VocoderArgs ==
    {None, Str("microsoft/speecht5_hifigan"), Str("missing/repo"),
     HifiGan("instance", 22050), OtherObject}

SamplingRateArgs == {None, Some(44100)}

\* a processor returns a new dict on every call, or (reuses) the dict it
\* returned last when it is called again with the same arguments
ProcessorArgs ==
    {None} \cup {Some([type |-> "Processor", reuses |-> r]) : r \in BOOLEAN}

\* SpeechT5HifiGan.from_pretrained(ref): the repositories that hold a vocoder
\* load; for any other reference the loader raises its own error.
HubVocoders == {"microsoft/speecht5_hifigan"}

FromPretrained(ref) ==
    IF ref \in HubVocoders
    THEN [error |-> "none", value |-> HifiGan(ref, 16000)]
    ELSE [error |-> "OSError", value |-> None]

----------------------------------------------------------------------------
(* __init__ *)

\* the vocoder validation without its last branch: any object passes as a vocoder
MutCheckVocoderAnyObject(is_speecht5, vocoder) ==
    IF is_speecht5 /\ vocoder = None
    THEN [error |-> "ValueError", value |-> None]
    ELSE IF is_speecht5 /\ IsInstance(vocoder, "str")
    THEN FromPretrained(vocoder[1].ref)
    ELSE [error |-> "none", value |-> vocoder]

\* lines 60-71: the vocoder check of the speecht5 family
CheckVocoder(is_speecht5, vocoder) ==
    IF is_speecht5 /\ vocoder = None
    THEN [error |-> "ValueError", value |-> None]
    ELSE IF is_speecht5 /\ IsInstance(vocoder, "str")
    THEN FromPretrained(vocoder[1].ref)
    ELSE IF is_speecht5 /\ ~IsInstance(vocoder, "SpeechT5HifiGan")
    THEN [error |-> "ValueError", value |-> None]
    ELSE [error |-> "none", value |-> vocoder]

\* lines 87-90: the loop over the rate names; it has no break, so every
\* non-None value found overwrites the one found before it
RECURSIVE RateLoop(_, _, _)
RateLoop(names, config, found) ==
    IF names = <<>>
    THEN found
    ELSE LET sampling_rate == Get(config, Head(names))
         IN  RateLoop(Tail(names), config,
                      IF sampling_rate # None THEN sampling_rate ELSE found)

\* lines 82-85: config.to_dict() updated with generation_config.to_dict()
MergedConfig(config, gen_config) ==
    IF gen_config # None THEN Update(config, gen_config[1]) ELSE config

\* the resolution with the explicit rate tried before the vocoder's
MutResolveExplicitFirst(is_speecht5, vocoder, sampling_rate, config, gen_config) ==
    IF sampling_rate # None
    THEN sampling_rate
    ELSE IF is_speecht5
    THEN vocoder[1].sampling_rate
    ELSE RateLoop(RateNames, MergedConfig(config, gen_config), None)

\* lines 76-92
ResolveSamplingRate(is_speecht5, vocoder, sampling_rate, config, gen_config) ==
    IF is_speecht5
    THEN vocoder[1].sampling_rate
    ELSE IF sampling_rate = None
    THEN RateLoop(RateNames, MergedConfig(config, gen_config), None)
    ELSE sampling_rate

NoSelf ==
    [model_type |-> "", is_speecht5 |-> FALSE, only_one_speaker_embeddings |-> FALSE,
     processor |-> None, vocoder |-> None, sampling_rate |-> None]

\* lines 42-92: the error raised ("none" if none) and the attributes assigned
PipelineInit(a) ==
    IF a.framework = "tf"
    THEN [error |-> "ValueError", self |-> NoSelf]
    ELSE LET model_type == a.model_type
             is_speecht5 == model_type = "speecht5"
             checked == CheckVocoder(is_speecht5, a.vocoder)
         IN  IF checked.error # "none"
             THEN [error |-> checked.error, self |-> NoSelf]
             ELSE [error |-> "none",
                   self |->
                     [model_type |-> model_type,
                      is_speecht5 |-> is_speecht5,
                      only_one_speaker_embeddings |->
                          model_type \in ONLY_ONE_SPEAKER_EMBEDDINGS_LIST,
                      processor |-> a.processor,
                      vocoder |-> checked.value,
                      sampling_rate |->
                          ResolveSamplingRate(is_speecht5, checked.value,
                                              a.sampling_rate, a.config,
                                              a.gen_config)]]

----------------------------------------------------------------------------
(* Invocation inputs *)

\* speaker_embeddings values: a preset name, a batch of embedding rows, an
\* empty batch, and a mapping from array names to arrays
PresetName == Some([type |-> "str", items |-> <<"v", "2">>])

EmbeddingRows == Some([type |-> "Tensor", items |-> <<"e1", "e2", "e3">>])

EmptyRows == Some([type |-> "Tensor", items |-> <<>>])

NamedArrays == Some([type |-> "dict", items |-> <<"semantic_prompt", "coarse_prompt">>])

SpeakerEmbeddings == {PresetName, EmbeddingRows, EmptyRows, NamedArrays}

\* input_texts: one text (a str), or a list of 1 to MaxBatch texts
TextItems == {"hi"}

Texts == UNION {[1..n -> TextItems] : n \in 1..MaxBatch}

\* isinstance(text, list)
IsList(text) == text \in Seq(TextItems)

EmptyDict == <<>>

\* **generate_kwargs of __call__: speaker_embeddings missing, None or a value,
\* and no further keyword parameter or one of two
ForwardKwargs ==
    {EmptyDict, [do_sample |-> TRUE], [input_ids |-> <<<<9>>>>]}

GenerateKwargs ==
    {Update(fw, se) :
        fw \in ForwardKwargs,
        se \in {EmptyDict} \cup
               {[speaker_embeddings |-> v] : v \in SpeakerEmbeddings \cup {None}}}

----------------------------------------------------------------------------
(* Collaborators *)

\* the tokenizer's ids of one text
TokenIds(t) == IF t = "hi" THEN <<101, 7>> ELSE <<0>>

\* the key under which the family's processor takes the conditioning value and
\* the key under which it returns it
ProcessorKeys(model_type) ==
    IF model_type = "bark"
    THEN [takes |-> "voice_preset", gives |-> "history_prompt"]
    ELSE [takes |-> "speaker_embeddings", gives |-> "speaker_embeddings"]

\* the input processor: one row of token ids for a str, one row per text for
\* a list, and the conditioning value, when one was given, under the key the
\* backend expects
Processor(model_type, processor_args) ==
    LET text == processor_args.text
        input_ids == IF IsList(text)
                     THEN [i \in 1..Len(text) |-> TokenIds(text[i])]
                     ELSE <<TokenIds(text)>>
        keys == ProcessorKeys(model_type)
        given == Get(processor_args, keys.takes)
    IN  IF model_type = "speecht5" \/ given = None
        THEN [input_ids |-> input_ids]
        ELSE SetItem([input_ids |-> input_ids], keys.gives, given)

\* the record index off by one
MutDefaultRecordOffByOne == 7305 - 1

\* line 99: the record index of the default x-vector
DefaultRecord == 7305

\* load_dataset("Matthijs/cmu-arctic-xvectors", split="validation")
EmbeddingsDataset ==
    [i \in {0, 7304, 7305} |->
        [xvector |-> IF i = 7305 THEN "xvector_7305"
                     ELSE IF i = 7304 THEN "xvector_7304" ELSE "xvector_0"]]

\* torch.tensor(xvector).unsqueeze(0): a batch holding the one row
Unsqueeze0(row) == Some([type |-> "Tensor", items |-> <<row>>])

\* value[0]: the first character of a str, the first row of a batch of rows,
\* the first scalar of a row; a dict keyed by names has no key 0, and an empty
\* value or a scalar has no element 0
Index0(v) ==
    IF v.type = "dict"
    THEN [error |-> "KeyError", value |-> None]
    ELSE IF v.items = <<>> \/ v.type = "scalar"
    THEN [error |-> "IndexError", value |-> None]
    ELSE IF v.type = "str"
    THEN [error |-> "none", value |-> Some([type |-> "str", items |-> <<Head(v.items)>>])]
    ELSE IF v.type = "row"
    THEN [error |-> "none", value |-> Some([type |-> "scalar", items |-> <<Head(v.items)>>])]
    ELSE [error |-> "none", value |-> Some([type |-> "row", items |-> <<Head(v.items)>>])]

----------------------------------------------------------------------------
(* preprocess, _forward, _sanitize_parameters, postprocess *)

\* lines 112, 133: f(**first, **second) raises TypeError when a keyword is in
\* both dicts (kwargs of preprocess cannot hold "text" or "speaker_embeddings",
\* which are its own parameters)
KeywordClash(first, second) == (DOMAIN first) \cap (DOMAIN second) # {}

\* preprocess naming the conditioning value by SPEAKER_EMBEDDINGS_KEY_MAPPING,
\* the lookup of line 105, for every family
MutPreprocessMappedKey(slf, text, speaker_embeddings, kwargs) ==
    IF slf.is_speecht5
    THEN LET processor_args == [text |-> text, return_tensors |-> "pt"]
         IN  IF slf.processor = None
             THEN [error |-> "TypeError", processor_args |-> processor_args,
                   loaded_dataset |-> FALSE, output |-> EmptyDict]
             ELSE LET inputs == Processor(slf.model_type, processor_args)
                      embeddings ==
                          IF speaker_embeddings = None
                          THEN Unsqueeze0(EmbeddingsDataset[DefaultRecord].xvector)
                          ELSE speaker_embeddings
                  IN  [error |-> "none", processor_args |-> processor_args,
                       loaded_dataset |-> (speaker_embeddings = None),
                       output |-> [input_ids |-> inputs.input_ids,
                                   speaker_embeddings |-> embeddings]]
    ELSE LET processor_args_dict ==
                 SetItem(EmptyDict, SpeakerEmbeddingsKey(slf.model_type),
                         speaker_embeddings)
             processor_args ==
                 Update(Update([text |-> text], processor_args_dict), kwargs)
         IN  IF \/ slf.processor = None
                \/ KeywordClash(processor_args_dict, kwargs)
             THEN \* None is not callable; a keyword given twice: the processor
                  \* is not called
                  [error |-> "TypeError", processor_args |-> processor_args,
                   loaded_dataset |-> FALSE, output |-> EmptyDict]
             ELSE [error |-> "none", processor_args |-> processor_args,
                   loaded_dataset |-> FALSE,
                   output |-> Processor(slf.model_type, processor_args)]

\* lines 94-114
Preprocess(slf, text, speaker_embeddings, kwargs) ==
    IF slf.is_speecht5
    THEN LET processor_args == [text |-> text, return_tensors |-> "pt"]
         IN  IF slf.processor = None
             THEN [error |-> "TypeError", processor_args |-> processor_args,
                   loaded_dataset |-> FALSE, output |-> EmptyDict]
             ELSE LET inputs == Processor(slf.model_type, processor_args)
                      embeddings ==
                          IF speaker_embeddings = None
                          THEN Unsqueeze0(EmbeddingsDataset[DefaultRecord].xvector)
                          ELSE speaker_embeddings
                  IN  [error |-> "none", processor_args |-> processor_args,
                       loaded_dataset |-> (speaker_embeddings = None),
                       output |-> [input_ids |-> inputs.input_ids,
                                   speaker_embeddings |-> embeddings]]
    ELSE LET processor_args_dict ==
                 IF slf.model_type = "bark"
                 THEN [voice_preset |-> speaker_embeddings]
                 ELSE [speaker_embeddings |-> speaker_embeddings]
             processor_args ==
                 Update(Update([text |-> text], processor_args_dict), kwargs)
         IN  IF \/ slf.processor = None
                \/ KeywordClash(processor_args_dict, kwargs)
             THEN \* None is not callable; a keyword given twice: the processor
                  \* is not called
                  [error |-> "TypeError", processor_args |-> processor_args,
                   loaded_dataset |-> FALSE, output |-> EmptyDict]
             ELSE [error |-> "none", processor_args |-> processor_args,
                   loaded_dataset |-> FALSE,
                   output |-> Processor(slf.model_type, processor_args)]

\* lines 125-130: model_inputs after the narrowing of the conditioning value
Narrow(slf, model_inputs) ==
    IF slf.only_one_speaker_embeddings
    THEN LET speaker_embeddings_key == SpeakerEmbeddingsKey(slf.model_type)
         IN  IF /\ Len(model_inputs.input_ids) > 1
                /\ Get(model_inputs, speaker_embeddings_key) # None
             THEN LET first == Index0(model_inputs[speaker_embeddings_key][1])
                  IN  [error |-> first.error,
                       value |-> IF first.error = "none"
                                 THEN SetItem(model_inputs, speaker_embeddings_key,
                                              first.value)
                                 ELSE model_inputs]
             ELSE [error |-> "none", value |-> model_inputs]
    ELSE [error |-> "none", value |-> model_inputs]

\* lines 116-135: the backend entry point called, the arguments it receives,
\* and model_inputs, the caller's dict, as the call leaves it: line 130 stores
\* the narrowed value into it before generate is called
Forward(slf, model_inputs, kwargs) ==
    IF slf.is_speecht5
    THEN [error |-> "none", entry |-> "generate_speech",
          received |-> [input_ids |-> model_inputs.input_ids,
                        speaker_embeddings |-> model_inputs.speaker_embeddings,
                        vocoder |-> slf.vocoder],
          speech |-> Some("speech"), model_inputs |-> model_inputs]
    ELSE LET narrowed == Narrow(slf, model_inputs)
         IN  IF narrowed.error # "none"
             THEN [error |-> narrowed.error, entry |-> "none",
                   received |-> EmptyDict, speech |-> None,
                   model_inputs |-> model_inputs]
             ELSE IF KeywordClash(narrowed.value, kwargs)
             THEN \* generate(**model_inputs, **kwargs) with a repeated keyword
                  [error |-> "TypeError", entry |-> "none",
                   received |-> EmptyDict, speech |-> None,
                   model_inputs |-> narrowed.value]
             ELSE [error |-> "none", entry |-> "generate",
                   received |-> Update(narrowed.value, kwargs),
                   speech |-> Some("speech"), model_inputs |-> narrowed.value]

\* lines 159-170
SanitizeParameters(generate_kwargs) ==
    LET preprocess_params ==
            [speaker_embeddings |-> Get(generate_kwargs, "speaker_embeddings")]
    IN  [preprocess_params |-> preprocess_params,
         forward_params |->
             Restrict(generate_kwargs,
                      (DOMAIN generate_kwargs) \ (DOMAIN preprocess_params)),
         postprocess_params |-> EmptyDict]

\* lines 172-173
Postprocess(speech) == speech

NoCall ==
    [made |-> FALSE, text |-> <<>>, generate_kwargs |-> EmptyDict,
     processor_args |-> EmptyDict, loaded_dataset |-> FALSE,
     model_inputs |-> EmptyDict, entry |-> "none", received |-> EmptyDict,
     error |-> "none", output |-> None]

\* no dict has been returned by preprocess
NoHeld ==
    [made |-> FALSE, caller |-> FALSE, speaker_embeddings |-> None,
     processor_args |-> EmptyDict, loaded_dataset |-> FALSE,
     produced |-> EmptyDict, now |-> EmptyDict]

\* two argument dicts of the processor are equal
SameArgs(first, second) ==
    /\ DOMAIN first = DOMAIN second
    /\ IsList(first.text) = IsList(second.text)
    /\ first = second

\* lines 94-114 with the dict h returned before: line 112 returns what the
\* processor returns, which for a processor that reuses its output is the dict
\* it returned for the same arguments, as that dict is now; line 101 (speecht5)
\* builds a new dict.  `held` is the dict returned: as first produced, and now.
PreprocessOn(slf, h, text, speaker_embeddings, kwargs) ==
    LET fresh == Preprocess(slf, text, speaker_embeddings, kwargs)
        reused == /\ fresh.error = "none"
                  /\ ~slf.is_speecht5
                  /\ slf.processor[1].reuses
                  /\ h.made
                  /\ SameArgs(h.processor_args, fresh.processor_args)
    IN  IF fresh.error # "none"
        THEN [error |-> fresh.error, processor_args |-> fresh.processor_args,
              loaded_dataset |-> fresh.loaded_dataset, output |-> fresh.output,
              held |-> NoHeld]
        ELSE IF reused
        THEN [error |-> "none", processor_args |-> fresh.processor_args,
              loaded_dataset |-> fresh.loaded_dataset, output |-> h.now,
              held |-> h]
        ELSE [error |-> "none", processor_args |-> fresh.processor_args,
              loaded_dataset |-> fresh.loaded_dataset, output |-> fresh.output,
              held |-> [made |-> TRUE, caller |-> FALSE,
                        speaker_embeddings |-> speaker_embeddings,
                        processor_args |-> fresh.processor_args,
                        loaded_dataset |-> fresh.loaded_dataset,
                        produced |-> fresh.output, now |-> fresh.output]]

\* _forward(model_inputs, **kwargs) on the dict h.now and postprocess on its
\* result, as the trace of what the collaborators saw, and the dict afterwards
ForwardOn(slf, h, kwargs) ==
    LET forwarded == Forward(slf, h.now, kwargs)
    IN  [call |-> [made |-> TRUE,
                   text |-> h.processor_args.text,
                   generate_kwargs |->
                       Update(kwargs, [speaker_embeddings |-> h.speaker_embeddings]),
                   processor_args |-> h.processor_args,
                   loaded_dataset |-> h.loaded_dataset,
                   model_inputs |-> h.now,
                   entry |-> forwarded.entry,
                   received |-> forwarded.received,
                   error |-> forwarded.error,
                   output |-> IF forwarded.error = "none"
                              THEN Postprocess(forwarded.speech)
                              ELSE None],
         held |-> [h EXCEPT !.now = forwarded.model_inputs]]

\* one invocation with the dict h returned before: the parameters are split
\* once, and the input is prepared, generated and post-processed as one
RunOn(slf, h, text, generate_kwargs) ==
    LET params == SanitizeParameters(generate_kwargs)
        prepared == PreprocessOn(slf, h, text,
                                 params.preprocess_params.speaker_embeddings,
                                 EmptyDict)
    IN  IF prepared.error # "none"
        THEN [call |-> [NoCall EXCEPT !.made = TRUE, !.text = text,
                                      !.generate_kwargs = generate_kwargs,
                                      !.processor_args = prepared.processor_args,
                                      !.loaded_dataset = prepared.loaded_dataset,
                                      !.error = prepared.error],
              held |-> prepared.held]
        ELSE LET ran == ForwardOn(slf, prepared.held, params.forward_params)
             IN  [call |-> [ran.call EXCEPT !.generate_kwargs = generate_kwargs],
                  held |-> ran.held]

\* lines 137-157: one invocation on a pipeline that has prepared nothing
\* before, as the trace of what the collaborators saw
PipelineCall(slf, text, generate_kwargs) ==
    RunOn(slf, NoHeld, text, generate_kwargs).call

----------------------------------------------------------------------------
(* The state machine *)

\* the constructor's arguments once they are out of scope
NoArgs ==
    [framework |-> "", model_type |-> "", vocoder |-> None, processor |-> None,
     sampling_rate |-> None, config |-> EmptyDict, gen_config |-> None]

Init ==
    /\ phase = "new"
    /\ args \in [framework : Frameworks, model_type : ModelTypes,
                 vocoder : VocoderArgs, processor : ProcessorArgs,
                 sampling_rate : SamplingRateArgs, config : RateDicts,
                 gen_config : {None} \cup {Some(d) : d \in RateDicts}]
    /\ error = "none"
    /\ self = NoSelf
    /\ call = NoCall
    /\ held = NoHeld
    /\ via = "none"

Construct ==
    /\ phase = "new"
    /\ LET r == PipelineInit(args)
       IN  /\ error' = r.error
           /\ self' = r.self
           /\ phase' = IF r.error = "none" THEN "ready" ELSE "failed"
    /\ UNCHANGED <<args, call, held, via>>

\* __call__(text, **generate_kwargs) on the constructed pipeline; the caller
\* is not handed the prepared dict, and holds it only when it is the dict an
\* earlier preprocess handed over, returned again by the processor
Invoke(text, generate_kwargs) ==
    /\ phase = "ready"
    /\ LET r == RunOn(self, held, text, generate_kwargs)
       IN  /\ call' = r.call
           /\ held' = r.held
    /\ via' = "__call__"
    /\ args' = NoArgs
    /\ UNCHANGED <<phase, error, self>>

\* preprocess(text, speaker_embeddings) on the constructed pipeline; the
\* caller holds the dict it returns
PreprocessStep(text, speaker_embeddings) ==
    /\ phase = "ready"
    /\ LET r == PreprocessOn(self, held, text, speaker_embeddings, EmptyDict)
       IN  held' = [r.held EXCEPT !.caller = r.held.made]
    /\ call' = NoCall
    /\ via' = "preprocess"
    /\ args' = NoArgs
    /\ UNCHANGED <<phase, error, self>>

\* _forward(model_inputs, **kwargs) on the dict the caller holds
ForwardStep(kwargs) ==
    /\ phase = "ready"
    /\ held.made /\ held.caller
    /\ LET r == ForwardOn(self, held, kwargs)
       IN  /\ call' = r.call
           /\ held' = r.held
    /\ via' = "_forward"
    /\ args' = NoArgs
    /\ UNCHANGED <<phase, error, self>>

CallList == \E text \in Texts, generate_kwargs \in GenerateKwargs :
                Invoke(text, generate_kwargs)

CallStr == \E text \in TextItems, generate_kwargs \in GenerateKwargs :
               Invoke(text, generate_kwargs)

Prepare == \E text \in Texts \cup TextItems,
              speaker_embeddings \in SpeakerEmbeddings \cup {None} :
               PreprocessStep(text, speaker_embeddings)

Generate == \E kwargs \in ForwardKwargs : ForwardStep(kwargs)

Next == Construct \/ CallList \/ CallStr \/ Prepare \/ Generate

Spec == Init /\ [][Next]_vars

----------------------------------------------------------------------------
(* Properties of the constructor.  `Constructed` holds from the return of  *)
(* __init__ to the first invocation, while its arguments are still known.  *)

Constructed == phase # "new" /\ args # NoArgs

Speecht5Args == Constructed /\ args.model_type = "speecht5"

\* C1 (as stated): for speecht5, __init__ raises ValueError when no vocoder is
\* given, when the vocoder is neither a str nor a SpeechT5HifiGan, and when no
\* vocoder loads from the given str; a constructed pipeline stores a
\* SpeechT5HifiGan, the loaded one when a str was given.
C1_ValueErrorAlways ==
    Speecht5Args =>
        /\ (\/ args.vocoder = None
            \/ (~IsInstance(args.vocoder, "str")
                    /\ ~IsInstance(args.vocoder, "SpeechT5HifiGan"))
            \/ (IsInstance(args.vocoder, "str")
                    /\ args.vocoder[1].ref \notin HubVocoders))
           => (phase = "failed" /\ error = "ValueError")
        /\ phase = "ready" =>
              /\ IsInstance(self.vocoder, "SpeechT5HifiGan")
              /\ IsInstance(args.vocoder, "str") =>
                     self.vocoder = HifiGan(args.vocoder[1].ref, 16000)

\* C1 (amended): as C1, except that when no vocoder loads from the given str
\* the construction fails with the error the loader raised, which __init__
\* lets through unchanged (ValueError only when the framework check already
\* rejected the pipeline).
C1_FailsWithoutVocoder ==
    Speecht5Args =>
        /\ (\/ args.vocoder = None
            \/ (~IsInstance(args.vocoder, "str")
                    /\ ~IsInstance(args.vocoder, "SpeechT5HifiGan")))
           => (phase = "failed" /\ error = "ValueError")
        /\ (IsInstance(args.vocoder, "str") /\ args.vocoder[1].ref \notin HubVocoders)
           => /\ phase = "failed"
              /\ error = IF args.framework = "tf" THEN "ValueError" ELSE "OSError"
        /\ phase = "ready" =>
              /\ IsInstance(self.vocoder, "SpeechT5HifiGan")
              /\ IsInstance(args.vocoder, "str") =>
                     self.vocoder = HifiGan(args.vocoder[1].ref, 16000)

\* C1 witness: a speecht5 construction that failed on an unloadable reference
C1_Witness ==
    /\ Speecht5Args /\ args.framework = "pt"
    /\ args.vocoder = Str("missing/repo")
    /\ phase = "failed" /\ error = "OSError"

\* C2 (as stated): a pipeline given a vocoder with rate R resolves R whatever
\* the family; one given no vocoder and an explicit rate E resolves E.
C2_VocoderRateAlways ==
    (Constructed /\ phase = "ready") =>
        /\ IsInstance(self.vocoder, "SpeechT5HifiGan") =>
               self.sampling_rate = self.vocoder[1].sampling_rate
        /\ (args.vocoder = None /\ args.sampling_rate # None) =>
               self.sampling_rate = args.sampling_rate

\* C2 (amended): a speecht5 pipeline resolves the rate R of its vocoder
\* whatever the explicit rate and the configurations hold; a pipeline given no
\* vocoder and an explicit rate E resolves E whatever the configurations hold.
C2_RatePriority ==
    (Constructed /\ phase = "ready") =>
        /\ self.is_speecht5 =>
               /\ IsInstance(self.vocoder, "SpeechT5HifiGan")
               /\ self.sampling_rate = self.vocoder[1].sampling_rate
        /\ (args.vocoder = None /\ args.sampling_rate # None) =>
               self.sampling_rate = args.sampling_rate

\* C2 witness: speecht5 with an explicit rate and configured rates, resolved
\* to the rate of the vocoder instance
C2_Witness ==
    /\ Constructed /\ phase = "ready" /\ self.is_speecht5
    /\ args.sampling_rate = Some(44100)
    /\ args.config = [sample_rate |-> Some(16000), sampling_rate |-> Some(24000)]
    /\ args.vocoder = HifiGan("instance", 22050)
    /\ self.sampling_rate = Some(22050)

\* the families that resolve the rate from the configurations
FromConfig ==
    Constructed /\ phase = "ready" /\ ~self.is_speecht5 /\ args.sampling_rate = None

\* C3: with no vocoder dependence and no explicit rate, the resolved rate is
\* the first non-None value of the merged configuration under "sample_rate",
\* then "sampling_rate".
C3_FirstMatchWins ==
    FromConfig =>
        LET merged == MergedConfig(args.config, args.gen_config)
        IN  self.sampling_rate =
                IF Get(merged, "sample_rate") # None
                THEN Get(merged, "sample_rate")
                ELSE Get(merged, "sampling_rate")

RateKeys == {RateNames[i] : i \in DOMAIN RateNames}

GenGet(key) == IF args.gen_config = None THEN None ELSE Get(args.gen_config[1], key)

\* C8: resolving from the configurations, (a) a rate held by the static
\* configuration is resolved when the generation configuration holds no
\* non-None rate, (b) when both hold a rate under the same key the generation
\* configuration's rate is resolved, (c) when neither holds a rate the
\* resolved rate is None and the construction succeeded.
C8_GenerationOverride ==
    FromConfig =>
        LET static == {k \in RateKeys : Get(args.config, k) # None}
            gen == {k \in RateKeys : GenGet(k) # None}
        IN  /\ (static # {} /\ gen = {}) =>
                   \E k \in static : self.sampling_rate = Get(args.config, k)
            /\ (static \cap gen # {}) =>
                   \E k \in static \cap gen : self.sampling_rate = GenGet(k)
            /\ (static = {} /\ gen = {}) => self.sampling_rate = None

----------------------------------------------------------------------------
(* Properties of an invocation *)

\* the keyword parameters of the invocation other than speaker_embeddings
PassedKwargs ==
    Restrict(call.generate_kwargs,
             (DOMAIN call.generate_kwargs) \ {"speaker_embeddings"})

\* the first element of a str or of a batch of rows
FirstOf(v) ==
    Some([type |-> IF v[1].type = "str" THEN "str" ELSE "row",
          items |-> <<v[1].items[1]>>])

\* a run of _forward for a single-embedding family, on inputs prepared without
\* a conditioning value or with a preset name, a batch of embedding rows or a
\* mapping of named arrays, that did not fail for a keyword given twice
SingleEmbeddingCall ==
    /\ call.made /\ self.only_one_speaker_embeddings
    /\ via \in {"__call__", "_forward"}
    /\ call.error # "TypeError"
    /\ held.speaker_embeddings \in {None, PresetName, EmbeddingRows, NamedArrays}

\* C4: for a single-embedding family, generate is called and receives the
\* first element of the conditioning value that preprocess produced when the
\* batch holds more than one text and the value is present, the produced value
\* itself otherwise, and every other produced input unchanged.
C4_Truncation ==
    SingleEmbeddingCall =>
        LET key == SPEAKER_EMBEDDINGS_KEY_MAPPING[self.model_type]
            prepared == held.produced
        IN  /\ call.entry = "generate"
            /\ IF Len(prepared.input_ids) > 1 /\ Get(prepared, key) # None
               THEN call.received[key] = FirstOf(prepared[key])
               ELSE Get(call.received, key) = Get(prepared, key)
            /\ \A k \in (DOMAIN prepared) \ {key} : call.received[k] = prepared[k]

\* C5: every keyword parameter of the invocation other than speaker_embeddings
\* is among the arguments of the backend entry point the invocation calls,
\* with its value.
C5_Passthrough ==
    (call.made /\ call.entry # "none") =>
        \A k \in DOMAIN PassedKwargs :
            k \in DOMAIN call.received /\ call.received[k] = PassedKwargs[k]

\* an invocation of another family than speecht5 that called the processor
ProcessorCalled == call.made /\ ~self.is_speecht5 /\ self.processor # None

\* C6 (as stated): the processor receives the conditioning value under the
\* key SPEAKER_EMBEDDINGS_KEY_MAPPING gives for the family, "speaker_embeddings"
\* when it gives none.
C6_MappedKey ==
    ProcessorCalled =>
        LET key == SpeakerEmbeddingsKey(self.model_type)
        IN  /\ key \in DOMAIN call.processor_args
            /\ call.processor_args[key] = Get(call.generate_kwargs, "speaker_embeddings")

\* C6 (amended): the processor receives the conditioning value, unchanged,
\* under "voice_preset" for bark and under "speaker_embeddings" for every
\* other family that is not speecht5; SPEAKER_EMBEDDINGS_KEY_MAPPING is not
\* used.
C6_ProcessorKey ==
    ProcessorCalled =>
        LET key == IF self.model_type = "bark" THEN "voice_preset"
                   ELSE "speaker_embeddings"
        IN  /\ DOMAIN call.processor_args = {"text", key}
            /\ call.processor_args[key] = Get(call.generate_kwargs, "speaker_embeddings")

\* C6 witness: bark called with a preset name
C6_Witness ==
    /\ ProcessorCalled /\ self.model_type = "bark"
    /\ Get(call.generate_kwargs, "speaker_embeddings") = PresetName
    /\ Get(call.processor_args, "voice_preset") = PresetName

\* C7: for speecht5, generate_speech receives the x-vector of record 7305 of
\* the dataset, as a batch of one row, when no conditioning value is given,
\* and the given value, without loading the dataset, otherwise.
C7_DefaultEmbedding ==
    (call.made /\ self.is_speecht5 /\ call.error = "none") =>
        /\ call.entry = "generate_speech"
        /\ IF Get(call.generate_kwargs, "speaker_embeddings") = None
           THEN /\ call.loaded_dataset
                /\ call.received.speaker_embeddings =
                       Some([type |-> "Tensor", items |-> <<"xvector_7305">>])
           ELSE /\ ~call.loaded_dataset
                /\ call.received.speaker_embeddings =
                       call.generate_kwargs.speaker_embeddings

\* C7 witness: speecht5 called without speaker_embeddings
C7_Witness ==
    /\ call.made /\ self.is_speecht5 /\ call.entry = "generate_speech"
    /\ "speaker_embeddings" \notin DOMAIN call.generate_kwargs
    /\ call.loaded_dataset
    /\ call.received.speaker_embeddings # None

\* C9: for a single-embedding family, inputs to _forward of more than one
\* text and a conditioning value that is a preset name, a batch of embedding rows or a
\* mapping of named arrays, the narrowing raises nothing and generate is
\* called with the narrowed value.
C9_NarrowingNeverRaises ==
    (/\ call.made /\ self.only_one_speaker_embeddings
     /\ "input_ids" \in DOMAIN call.model_inputs
     /\ Len(call.model_inputs.input_ids) > 1
     /\ Get(call.model_inputs, "history_prompt")
            \in {PresetName, EmbeddingRows, NamedArrays})
    => /\ call.error \notin {"KeyError", "IndexError"}
       /\ call.error = "none" => call.entry = "generate"

\* C10: an invocation leaves the attributes set by __init__ as they are, and
\* every preparation yields the structure that the first preparation with the
\* same text and conditioning value produced.
C10_NoStateDrift ==
    [][/\ phase = "ready" => (phase' = "ready" /\ self' = self)
       /\ (via' = "preprocess" /\ held'.made) => held'.now = held'.produced
       /\ (via' = "__call__" /\ held'.made)
              => call'.model_inputs = held'.produced]_vars
====
